---- MODULE Spec2Model ----
(***************************************************************************)
(* Model of write_it_template.js: the three button handlers writeIt,       *)
(* startIt and explainMore, the shared modal, lastContent, closeWriter and *)
(* copyContent.                                                            *)
(*                                                                         *)
(* A JavaScript string is a sequence of tokens (<<>> is ""), the value     *)
(* undefined is the one-token sequence UNDEFINED.  Each handler is two     *)
(* steps: the synchronous part up to the await inside _callServer (the     *)
(* fetch is issued there), and the continuation that runs when the request *)
(* settles.  The variable step records the step just taken and the values  *)
(* it consumed, so that per-step properties can name them.                 *)
(*                                                                         *)
(* The environment: the page has one button per handler, each showing its  *)
(* handler's idle label; a handler can be called on its element at any     *)
(* time, also while an earlier request of that element is outstanding (the *)
(* code has no guard of its own); the server answers with string-valued    *)
(* content and error fields, as the wire contract says.  Time is not       *)
(* modelled: the 2000 ms timeouts of copyContent fire in any interleaving  *)
(* with the other steps.                                                   *)
(***************************************************************************)
EXTENDS Naturals, Sequences, FiniteSets, TLC

\* ---------------------------------------------------------------- bounds
MaxOps == 3         \* user operations (clicks and copies) per behaviour
MaxFairOps == 2     \* the same, for the behaviours checked under fairness
MaxPayloadOps == 1  \* the same, for the behaviours over all attribute values

\* ------------------------------------------------------- JavaScript values
UNDEFINED == <<"undefined">>
EMPTY == <<>>
NL == "\n"
BR == "<br>"

\* truthiness of a string-or-undefined value, as used by || and if(...)
Truthy(v) == v # UNDEFINED /\ v # EMPTY

\* a || b
OrElse(a, b) == IF Truthy(a) THEN a ELSE b

\* ---------------------------------------------------- process-wide constants
SLUG == <<"__SLUG__">>
CH == <<"__CH__">>
BIGBET == <<"__BIGBET__">>

FALLBACK == <<"No content generated.">>

\* button labels
BUSY_WRITE == "WRITING..."
BUSY_START == "THINKING..."
BUSY_EXPLAIN == "ANALYZING..."
IDLE_WRITE == "WRITE IT"
IDLE_START == "START IT"
IDLE_EXPLAIN == "Explain More"
COPY_DONE == "Copied!"
COPY_IDLE == "Copy"

Kinds == {"write", "start", "explain"}

BusyLabel(kind) ==
  CASE kind = "write" -> BUSY_WRITE
    [] kind = "start" -> BUSY_START
    [] kind = "explain" -> BUSY_EXPLAIN

IdleLabel(kind) ==
  CASE kind = "write" -> IDLE_WRITE
    [] kind = "start" -> IDLE_START
    [] kind = "explain" -> IDLE_EXPLAIN

\* ----------------------------------------------------------------- inputs
Elements == {"btnWrite", "btnStart", "btnExplain"}

\* data-* attributes of a triggering element: topic and type are always
\* there; views, bigbet and label may be missing, empty or set
Datasets ==
  [topic : {<<"Launch Plan">>, <<"Pricing">>}, type : {<<"idea">>},
   views : {UNDEFINED, EMPTY, <<"12K">>},
   bigbet : {UNDEFINED, EMPTY, <<"AI">>},
   label : {UNDEFINED, EMPTY, <<"Why it works">>}]

\* the page: a WRITE IT, a START IT and an Explain More button, the handler
\* each one's click invokes, and their attributes
Handler == [btnWrite |-> "write", btnStart |-> "start", btnExplain |-> "explain"]

Page ==
  [btnWrite |-> [topic |-> <<"Launch Plan">>, type |-> <<"idea">>,
                 views |-> UNDEFINED, bigbet |-> UNDEFINED,
                 label |-> UNDEFINED],
   btnStart |-> [topic |-> <<"Launch Plan">>, type |-> <<"idea">>,
                 views |-> <<"12K">>, bigbet |-> UNDEFINED,
                 label |-> UNDEFINED],
   btnExplain |-> [topic |-> <<"Pricing">>, type |-> <<"idea">>,
                   views |-> UNDEFINED, bigbet |-> EMPTY,
                   label |-> <<"Why it works">>]]

\* message texts of thrown errors and of the response's error field
Messages == { <<"rate limited">> }

\* values of the response's content field
Contents == { UNDEFINED, EMPTY, <<"a">>, <<NL, "a", NL>> }

\* values of the response's error field
Errors == { UNDEFINED, EMPTY } \cup Messages

\* how a request can settle: fetch rejects, r.json() rejects, or r.json()
\* yields the parsed object d
Outcomes ==
  [how : {"rejected", "malformed"}, msg : Messages,
   error : {UNDEFINED}, content : {UNDEFINED}]
  \cup
  [how : {"parsed"}, msg : {UNDEFINED}, error : Errors, content : Contents]

\* ------------------------------------------------------------ pure helpers
\* as replace, without the g flag: only the first newline is replaced
RECURSIVE replaceFirst(_)
replaceFirst(text) ==
  IF text = EMPTY THEN EMPTY
  ELSE IF Head(text) = NL THEN <<BR>> \o Tail(text)
  ELSE <<Head(text)>> \o replaceFirst(Tail(text))

\* text.replace(/\n/g, "<br>")
RECURSIVE replace(_)
replace(text) ==
  IF text = EMPTY THEN EMPTY
  ELSE (IF Head(text) = NL THEN <<BR>> ELSE <<Head(text)>>)
       \o replace(Tail(text))

\* JSON.stringify of a flat object of strings: the key/value pairs whose
\* value is defined
stringify(obj) == { <<k, obj[k]>> : k \in {j \in DOMAIN obj : obj[j] # UNDEFINED} }

\* as _callServer, looking at the content before the error field
_callServerContentFirst(out) ==
  IF out.how # "parsed" THEN [thrown |-> TRUE, val |-> out.msg]
  ELSE IF Truthy(out.content) THEN [thrown |-> FALSE, val |-> out.content]
  ELSE IF Truthy(out.error) THEN [thrown |-> TRUE, val |-> out.error]
  ELSE [thrown |-> FALSE, val |-> FALLBACK]

\* as _callServer, without the fallback literal: an empty text is returned
_callServerNoFallback(out) ==
  IF out.how # "parsed" THEN [thrown |-> TRUE, val |-> out.msg]
  ELSE IF Truthy(out.error) THEN [thrown |-> TRUE, val |-> out.error]
  ELSE [thrown |-> FALSE, val |-> OrElse(out.content, EMPTY)]

\* as _callServer, taking a response that does not parse for an empty one
_callServerSwallowParse(out) ==
  IF out.how = "rejected" THEN [thrown |-> TRUE, val |-> out.msg]
  ELSE IF out.how = "malformed" THEN [thrown |-> FALSE, val |-> FALLBACK]
  ELSE IF Truthy(out.error) THEN [thrown |-> TRUE, val |-> out.error]
  ELSE [thrown |-> FALSE, val |-> OrElse(out.content, FALLBACK)]

\* result of _callServer for a request that settles as out: either it
\* throws an error with message val, or it returns the text val
_callServer(out) ==
  IF out.how # "parsed" THEN [thrown |-> TRUE, val |-> out.msg]
  ELSE IF Truthy(out.error) THEN [thrown |-> TRUE, val |-> out.error]
  ELSE [thrown |-> FALSE, val |-> OrElse(out.content, FALLBACK)]

\* as explainMorePayload, without the default for big_bet
explainMorePayloadNoDefault(ds) ==
  [topic |-> ds.topic, type |-> <<"explain">>,
   big_bet |-> ds.bigbet, label |-> OrElse(ds.label, EMPTY)]

\* payloads handed to _callServer
writeItPayload(ds) ==
  [topic |-> ds.topic, type |-> <<"write">>, card_type |-> ds.type,
   views |-> OrElse(ds.views, EMPTY)]

startItPayload(ds) ==
  [topic |-> ds.topic, type |-> <<"start">>, card_type |-> ds.type,
   views |-> OrElse(ds.views, EMPTY)]

explainMorePayload(ds) ==
  [topic |-> ds.topic, type |-> <<"explain">>,
   big_bet |-> OrElse(ds.bigbet, BIGBET), label |-> OrElse(ds.label, EMPTY)]

\* innerHTML values of #wmContent
LoadingBody(loadingMsg) == [cls |-> "wm-loading", html |-> loadingMsg]
ContentBody(text) == [cls |-> "wm-content", html |-> replace(text)]
ErrorBody(message) == [cls |-> "error", html |-> <<"Error: ">> \o message]

\* ------------------------------------------------------------------ state
VARIABLES
  lastContent,    \* let lastContent
  overlayActive,  \* #writerOverlay has class "active"
  wmTitle,        \* #wmTitle textContent
  wmContent,      \* #wmContent innerHTML
  disabled,       \* btn.disabled of every element
  textContent,    \* btn.textContent of every element
  dataset,        \* btn.dataset of every element
  onclick,        \* the handler every element's click invokes
  pending,        \* requests issued and not yet settled
  calls,          \* handler invocations so far
  fetches,        \* fetch() calls so far
  clipboard,      \* system clipboard text
  copyLabel,      \* .wm-btn-copy textContent
  writes,         \* clipboard writes started and not yet finished
  copies,         \* copyContent calls so far
  timers,         \* armed setTimeout callbacks of copyContent
  step            \* the step just taken

vars == <<lastContent, overlayActive, wmTitle, wmContent, disabled,
          textContent, dataset, onclick, pending, calls, fetches, clipboard,
          copyLabel, writes, copies, timers, step>>

modal == <<overlayActive, wmTitle, wmContent>>
buttons == <<disabled, textContent>>
copying == <<clipboard, copyLabel, writes, copies, timers>>

\* the state after the page with the given attributes has loaded
Loaded(page) ==
  /\ lastContent = EMPTY
  /\ overlayActive = FALSE
  /\ wmTitle = EMPTY
  /\ wmContent = [cls |-> "", html |-> EMPTY]
  /\ disabled = [e \in Elements |-> FALSE]
  /\ onclick = Handler
  /\ textContent = [e \in Elements |-> IdleLabel(onclick[e])]
  /\ dataset = page
  /\ pending = {}
  /\ calls = 0
  /\ fetches = 0
  /\ clipboard = EMPTY
  /\ copyLabel = COPY_IDLE
  /\ writes = {}
  /\ copies = 0
  /\ timers = 0
  /\ step = [op |-> "init"]

Init == Loaded(Page)

\* every element carrying the same attributes, drawn from Datasets
InitPayload == \E d \in Datasets : Loaded([e \in Elements |-> d])

\* ---------------------------------------------------------------- actions
\* as closeWriter, also dropping the requests in flight
closeWriterCancels ==
  /\ overlayActive' = FALSE
  /\ pending' = {}
  /\ step' = [op |-> "close"]
  /\ UNCHANGED <<lastContent, wmTitle, wmContent, buttons, dataset, onclick,
                 calls, fetches, copying>>

\* closeWriter()
closeWriter ==
  /\ overlayActive' = FALSE
  /\ step' = [op |-> "close"]
  /\ UNCHANGED <<lastContent, wmTitle, wmContent, buttons, dataset, onclick, pending,
                 calls, fetches, copying>>

\* as _openModal, a modal that is already open being left as it is
_openModalIfHidden(title, loadingMsg) ==
  IF overlayActive
  THEN UNCHANGED modal
  ELSE /\ wmTitle' = title
       /\ wmContent' = LoadingBody(loadingMsg)
       /\ overlayActive' = TRUE

\* _openModal(title, loadingMsg)
_openModal(title, loadingMsg) ==
  /\ wmTitle' = title
  /\ wmContent' = LoadingBody(loadingMsg)
  /\ overlayActive' = TRUE

\* the request record of the invocation of kind on btn with the payload;
\* was keeps the element's state just before the invocation
Request(kind, btn, payload) ==
  [id |-> calls + 1, btn |-> btn, kind |-> kind,
   url |-> <<"/api/write/">> \o SLUG, body |-> stringify(payload),
   was |-> [disabled |-> disabled[btn], textContent |-> textContent[btn]]]

\* _callServer up to its first await: one fetch is issued
issue(req) ==
  /\ pending' = pending \cup {req}
  /\ fetches' = fetches + 1

\* writeIt(btn) up to the await
writeIt(btn) ==
  /\ LET ds == dataset[btn]
         req == Request("write", btn, writeItPayload(ds))
     IN /\ disabled' = [disabled EXCEPT ![btn] = TRUE]
        /\ textContent' = [textContent EXCEPT ![btn] = BUSY_WRITE]
        /\ _openModal(<<"(pen) ">> \o ds.topic,
                      <<"Writing in ">> \o CH \o <<"'s voice...">>)
        /\ issue(req)
        /\ step' = [op |-> "invoke", req |-> req]
  /\ calls' = calls + 1
  /\ UNCHANGED <<lastContent, dataset, onclick, copying>>

\* startIt(btn) up to the await
startIt(btn) ==
  /\ LET ds == dataset[btn]
         req == Request("start", btn, startItPayload(ds))
     IN /\ disabled' = [disabled EXCEPT ![btn] = TRUE]
        /\ textContent' = [textContent EXCEPT ![btn] = BUSY_START]
        /\ _openModal(<<"(rocket) Getting You Started: ">> \o ds.topic,
                      <<"Building your starting framework...">>)
        /\ issue(req)
        /\ step' = [op |-> "invoke", req |-> req]
  /\ calls' = calls + 1
  /\ UNCHANGED <<lastContent, dataset, onclick, copying>>

\* explainMore(btn) up to the await
explainMore(btn) ==
  /\ LET ds == dataset[btn]
         req == Request("explain", btn, explainMorePayload(ds))
     IN /\ disabled' = [disabled EXCEPT ![btn] = TRUE]
        /\ textContent' = [textContent EXCEPT ![btn] = BUSY_EXPLAIN]
        /\ _openModal(<<"(lens) Deep Dive: ">> \o OrElse(ds.label, EMPTY),
                      <<"Building deep explanation...">>)
        /\ issue(req)
        /\ step' = [op |-> "invoke", req |-> req]
  /\ calls' = calls + 1
  /\ UNCHANGED <<lastContent, dataset, onclick, copying>>

\* as tryCatch, the catch block calling the server once more
tryCatchRetry(req, res) ==
  /\ IF res.thrown
     THEN /\ wmContent' = ErrorBody(res.val)
          /\ pending' = (pending \ {req}) \cup {[req EXCEPT !.id = calls + 1]}
          /\ fetches' = fetches + 1
          /\ UNCHANGED lastContent
     ELSE /\ lastContent' = res.val
          /\ wmContent' = ContentBody(res.val)
          /\ pending' = pending \ {req}
          /\ UNCHANGED fetches

\* as tryCatch, a request that is not the latest one issued being dropped
tryCatchLatestOnly(req, res) ==
  /\ pending' = pending \ {req}
  /\ UNCHANGED fetches
  /\ IF req.id # calls
     THEN UNCHANGED <<wmContent, lastContent>>
     ELSE IF res.thrown
     THEN /\ wmContent' = ErrorBody(res.val)
          /\ UNCHANGED lastContent
     ELSE /\ lastContent' = res.val
          /\ wmContent' = ContentBody(res.val)

\* as tryCatch, the text stored before the result is known to be one
tryCatchStoresAny(req, res) ==
  /\ pending' = pending \ {req}
  /\ UNCHANGED fetches
  /\ lastContent' = res.val
  /\ wmContent' = IF res.thrown THEN ErrorBody(res.val)
                  ELSE ContentBody(res.val)

\* as tryCatch, the catch block empty
tryCatchSilent(req, res) ==
  /\ pending' = pending \ {req}
  /\ UNCHANGED fetches
  /\ IF res.thrown
     THEN UNCHANGED <<wmContent, lastContent>>
     ELSE /\ lastContent' = res.val
          /\ wmContent' = ContentBody(res.val)

\* the try/catch around the awaited _callServer, whose request req is over
\* with the result res: store and render the text, or render the caught
\* error's message; no further request is issued
tryCatch(req, res) ==
  /\ pending' = pending \ {req}
  /\ UNCHANGED fetches
  /\ IF res.thrown
     THEN /\ wmContent' = ErrorBody(res.val)
          /\ UNCHANGED lastContent
     ELSE /\ lastContent' = res.val
          /\ wmContent' = ContentBody(res.val)

\* as restore, forgetting the disabled flag
restoreLabelOnly(btn, idle) ==
  /\ textContent' = [textContent EXCEPT ![btn] = idle]
  /\ UNCHANGED disabled

\* as restore, every element of the page enabled again
restoreAll(btn, idle) ==
  /\ disabled' = [e \in Elements |-> FALSE]
  /\ textContent' = [textContent EXCEPT ![btn] = idle]

\* the statement after the try/catch
restore(btn, idle) ==
  /\ disabled' = [disabled EXCEPT ![btn] = FALSE]
  /\ textContent' = [textContent EXCEPT ![btn] = idle]

\* as settled, the modal shown again when a result arrives
settledShows(req, out) ==
  /\ step' = [op |-> "settle", req |-> req, out |-> out]
  /\ overlayActive' = TRUE
  /\ UNCHANGED <<wmTitle, dataset, onclick, calls, copying>>

\* the record of a continuation, and what every continuation leaves alone
settled(req, out) ==
  /\ step' = [op |-> "settle", req |-> req, out |-> out]
  /\ UNCHANGED <<overlayActive, wmTitle, dataset, onclick, calls, copying>>

\* as writeItResume, the button restored inside the try block only
writeItResumeInTry(req, out) ==
  /\ req \in pending /\ req.kind = "write"
  /\ tryCatch(req, _callServer(out))
  /\ IF _callServer(out).thrown
     THEN UNCHANGED buttons
     ELSE restore(req.btn, IDLE_WRITE)
  /\ settled(req, out)

\* writeIt from the await on, the request req settling as out
writeItResume(req, out) ==
  /\ req \in pending /\ req.kind = "write"
  /\ tryCatch(req, _callServer(out))
  /\ restore(req.btn, IDLE_WRITE)
  /\ settled(req, out)

\* startIt from the await on
startItResume(req, out) ==
  /\ req \in pending /\ req.kind = "start"
  /\ tryCatch(req, _callServer(out))
  /\ restore(req.btn, IDLE_START)
  /\ settled(req, out)

\* explainMore from the await on
explainMoreResume(req, out) ==
  /\ req \in pending /\ req.kind = "explain"
  /\ tryCatch(req, _callServer(out))
  /\ restore(req.btn, IDLE_EXPLAIN)
  /\ settled(req, out)

\* as copyContent, the text handed over being cleared afterwards
copyContentConsumes ==
  /\ copies' = copies + 1
  /\ writes' = writes \cup {[id |-> copies + 1, text |-> lastContent]}
  /\ lastContent' = EMPTY
  /\ step' = [op |-> "copy"]
  /\ UNCHANGED <<modal, buttons, dataset, onclick, pending, calls,
                 fetches, clipboard, copyLabel, timers>>

\* copyContent(): navigator.clipboard.writeText(lastContent) is started
copyContent ==
  /\ copies' = copies + 1
  /\ writes' = writes \cup {[id |-> copies + 1, text |-> lastContent]}
  /\ step' = [op |-> "copy"]
  /\ UNCHANGED <<lastContent, modal, buttons, dataset, onclick, pending, calls,
                 fetches, clipboard, copyLabel, timers>>

\* as copyFulfilled, the text read when the write is carried out
copyFulfilledLate(w) ==
  /\ w \in writes
  /\ writes' = writes \ {w}
  /\ clipboard' = lastContent
  /\ copyLabel' = COPY_DONE
  /\ timers' = timers + 1
  /\ step' = [op |-> "written", w |-> w]
  /\ UNCHANGED <<lastContent, modal, buttons, dataset, onclick, pending, calls,
                 fetches, copies>>

\* the clipboard write w is fulfilled: the then-callback runs
copyFulfilled(w) ==
  /\ w \in writes
  /\ writes' = writes \ {w}
  /\ clipboard' = w.text
  /\ copyLabel' = COPY_DONE
  /\ timers' = timers + 1
  /\ step' = [op |-> "written", w |-> w]
  /\ UNCHANGED <<lastContent, modal, buttons, dataset, onclick, pending, calls,
                 fetches, copies>>

\* the clipboard write w is rejected: no callback is registered for that
copyRejected(w) ==
  /\ w \in writes
  /\ writes' = writes \ {w}
  /\ step' = [op |-> "unwritten", w |-> w]
  /\ UNCHANGED <<lastContent, modal, buttons, dataset, onclick, pending, calls,
                 fetches, clipboard, copyLabel, copies, timers>>

\* a setTimeout callback of copyContent runs, 2000 ms after it was armed
copyTimeout ==
  /\ timers > 0
  /\ timers' = timers - 1
  /\ copyLabel' = COPY_IDLE
  /\ step' = [op |-> "timeout"]
  /\ UNCHANGED <<lastContent, modal, buttons, dataset, onclick, pending, calls,
                 fetches, clipboard, writes, copies>>

\* the user has operations left within the bound n
More(n) == calls + copies < n

\* a step of the page whose user performs at most n operations
Step(n) ==
  \/ closeWriter
  \/ More(n) /\ copyContent
  \/ \E w \in writes : copyFulfilled(w)
  \/ \E w \in writes : copyRejected(w)
  \/ copyTimeout
  \/ More(n) /\ \E btn \in Elements : onclick[btn] = "write" /\ writeIt(btn)
  \/ More(n) /\ \E btn \in Elements : onclick[btn] = "start" /\ startIt(btn)
  \/ More(n) /\ \E btn \in Elements :
                  onclick[btn] = "explain" /\ explainMore(btn)
  \/ \E req \in pending, out \in Outcomes : writeItResume(req, out)
  \/ \E req \in pending, out \in Outcomes : startItResume(req, out)
  \/ \E req \in pending, out \in Outcomes : explainMoreResume(req, out)

Next == Step(MaxOps)

Spec == Init /\ [][Next]_vars

\* the request with the given id settles
Settle(id) ==
  \E req \in pending, out \in Outcomes :
    /\ req.id = id
    /\ \/ writeItResume(req, out)
       \/ startItResume(req, out)
       \/ explainMoreResume(req, out)

\* the page with any attribute values
SpecPayload == InitPayload /\ [][Step(MaxPayloadOps)]_vars

FairNext == Step(MaxFairOps)

\* every outstanding request eventually settles
FairSpec ==
  Init /\ [][FairNext]_vars /\ \A id \in 1..MaxFairOps : WF_vars(Settle(id))

\* ------------------------------------------------- claims: helper predicates
Invoked == step.op = "invoke"
Settled == step.op = "settle"

\* the settled request's response parsed and carried no (truthy) error
Succeeded(out) == out.how = "parsed" /\ ~Truthy(out.error)

\* the message text of a failure
FailureText(out) == IF out.how = "parsed" THEN out.error ELSE out.msg

\* H is X with every newline replaced by the line-break marker
LineBroken(X, H) ==
  /\ Len(H) = Len(X)
  /\ \A i \in 1..Len(X) : H[i] = (IF X[i] = NL THEN BR ELSE X[i])

\* C1: when a request of any of the three kinds settles with a parsed
\* response that has no error and non-empty content X, the modal body is X
\* with every newline replaced by <br>, and lastContent is the raw X.
C1_SuccessRendersContent ==
  (Settled /\ Succeeded(step.out) /\ Truthy(step.out.content)) =>
    /\ wmContent.cls = "wm-content"
    /\ LineBroken(step.out.content, wmContent.html)
    /\ lastContent = step.out.content

C1_Witness ==
  /\ Settled /\ step.req.kind = "start"
  /\ Succeeded(step.out) /\ step.out.content = <<NL, "a", NL>>
  /\ wmContent.html = <<BR, "a", BR>>
  /\ lastContent = <<NL, "a", NL>>

\* C2: when a request of any kind settles with a parsed response whose error
\* field is a non-empty string E, with or without a content field, the modal
\* body is "Error: E" and lastContent keeps the value it had just before.
C2_ErrorFieldRendersError ==
  [][(step'.op = "settle" /\ step'.out.how = "parsed"
        /\ Truthy(step'.out.error)) =>
       /\ wmContent'.cls = "error"
       /\ wmContent'.html = <<"Error: ">> \o step'.out.error
       /\ lastContent' = lastContent]_vars

C2_Witness ==
  /\ Settled /\ step.out.how = "parsed"
  /\ Truthy(step.out.error) /\ Truthy(step.out.content)
  /\ wmContent.html = <<"Error: ">> \o step.out.error
  /\ lastContent = <<"a">>

\* C3: when a request of any kind settles with a parsed response that has
\* neither a content nor an error field, the modal body is the fallback
\* literal "No content generated." and lastContent is that literal too.
C3_FallbackLiteral ==
  (Settled /\ step.out.how = "parsed"
     /\ step.out.error = UNDEFINED /\ step.out.content = UNDEFINED) =>
    /\ wmContent.cls = "wm-content"
    /\ wmContent.html = <<"No content generated.">>
    /\ lastContent = <<"No content generated.">>

C3_Witness ==
  /\ Settled /\ step.req.kind = "explain" /\ step.out.how = "parsed"
  /\ step.out.error = UNDEFINED /\ step.out.content = UNDEFINED
  /\ wmContent.html = <<"No content generated.">>

\* the element whose click started the request of the step just taken
Btn == step.req.btn

\* C4 as stated: an invocation disables the element with the kind's busy
\* label, and the settlement enables it with the label it had before the
\* invocation.
C4_LabelBeforeInvocationRestored ==
  /\ Invoked => disabled[Btn] /\ textContent[Btn] = BusyLabel(step.req.kind)
  /\ Settled => ~disabled[Btn] /\ textContent[Btn] = step.req.was.textContent

\* C4, amended: an invocation disables the element with the kind's busy
\* label before the request is issued, and the settlement, success or
\* failure, enables it with the kind's fixed idle label; that is the label
\* it had before the invocation whenever it showed that idle label then.
C4_IdleLabelRestored ==
  /\ Invoked =>
       /\ disabled[Btn] /\ textContent[Btn] = BusyLabel(step.req.kind)
       /\ step.req \in pending
  /\ Settled =>
       /\ ~disabled[Btn] /\ textContent[Btn] = IdleLabel(step.req.kind)
       /\ step.req.was.textContent = IdleLabel(step.req.kind)
            => textContent[Btn] = step.req.was.textContent

C4_Witness ==
  /\ Settled /\ ~Succeeded(step.out) /\ step.req.kind = "write"
  /\ step.req.was.textContent = IDLE_WRITE
  /\ ~disabled[Btn] /\ textContent[Btn] = IDLE_WRITE

\* C5: if every outstanding request eventually settles, every element that
\* is disabled is eventually enabled again.
C5_EventuallyEnabled == \A e \in Elements : disabled[e] ~> ~disabled[e]

C5_Witness ==
  /\ Settled /\ ~overlayActive /\ step.req.was.disabled
  /\ ~disabled[Btn] /\ \A r \in pending : r.btn # Btn

\* C6: a transport failure, a response that does not parse and a parsed
\* response with an error field all settle the same way: the modal body is
\* the error message with the failure's text, lastContent is unchanged and
\* the element is enabled again.
C6_FailuresUnified ==
  [][(step'.op = "settle" /\ ~Succeeded(step'.out)) =>
       /\ wmContent' = [cls |-> "error",
                        html |-> <<"Error: ">> \o FailureText(step'.out)]
       /\ lastContent' = lastContent
       /\ ~disabled'[step'.req.btn]]_vars

C6_Witness ==
  /\ Settled /\ step.out.how = "malformed"
  /\ wmContent.cls = "error" /\ lastContent = <<NL, "a", NL>>
  /\ ~disabled[Btn]

\* C7: every invocation issues exactly one request and no settlement issues
\* another: the number of requests issued equals the number of invocations.
C7_OneRequestPerInvocation ==
  /\ fetches = calls
  /\ Cardinality(pending) <= calls
  /\ \A r \in pending : r.id <= calls

C7_Witness ==
  /\ Settled /\ step.out.how = "rejected" /\ calls = 2 /\ fetches = 2
  /\ Cardinality(pending) = 1

\* C8: closeWriter only hides the modal: title, body, lastContent, every
\* element's flag and label and the outstanding requests stay as they are,
\* and a request that settles while the modal is hidden still writes the
\* body, lastContent (on success) and its element.
C8_CloseOnlyHides ==
  /\ [][step'.op = "close" =>
          /\ ~overlayActive'
          /\ UNCHANGED <<wmTitle, wmContent, lastContent, disabled,
                         textContent, pending>>]_vars
  /\ [](Settled /\ ~overlayActive =>
          /\ ~disabled[Btn]
          /\ textContent[Btn] = IdleLabel(step.req.kind)
          /\ IF Succeeded(step.out)
             THEN /\ lastContent =
                       (IF Truthy(step.out.content) THEN step.out.content
                        ELSE <<"No content generated.">>)
                  /\ wmContent.cls = "wm-content"
                  /\ LineBroken(lastContent, wmContent.html)
             ELSE wmContent.html = <<"Error: ">> \o FailureText(step.out))

C8_Witness ==
  /\ Settled /\ ~overlayActive /\ calls = 1
  /\ Succeeded(step.out) /\ lastContent = <<"a">>
  /\ wmContent.html = <<"a">>

\* C9: copyContent writes to the clipboard the value lastContent holds when
\* it is called; when the write completes the copy button shows the
\* confirmation, and each armed delay, also an overlapping one, puts the
\* original label back, so the confirmation never stays without a revert
\* being due.
C9_CopyWritesLastContent ==
  /\ [][step'.op = "copy" =>
          \E w \in writes' \ writes : w.text = lastContent]_vars
  /\ [][step'.op = "written" =>
          /\ step'.w \in writes
          /\ clipboard' = step'.w.text
          /\ copyLabel' = "Copied!"]_vars
  /\ [][step'.op = "timeout" => copyLabel' = "Copy"]_vars
  /\ [](copyLabel = "Copied!" => timers > 0)

C9_Witness ==
  /\ step.op = "timeout" /\ timers = 1 /\ copyLabel = "Copy"
  /\ clipboard = <<"a">> /\ lastContent = <<"a">>

\* an attribute is present on the element
Present(v) == v # UNDEFINED

\* C10 as stated: the request body is {topic, type, card_type, views} for
\* writeIt and startIt, views being "" without a views value, and {topic,
\* type, big_bet, label} for explainMore, big_bet being the element's value
\* if present and BIGBET otherwise, label the element's label or "".
C10_BigBetIfPresent ==
  Invoked =>
    LET ds == dataset[Btn]
        kind == step.req.kind
    IN step.req.body =
         IF kind \in {"write", "start"}
         THEN { <<"topic", ds.topic>>, <<"type", <<kind>> >>,
                <<"card_type", ds.type>>,
                <<"views", IF Present(ds.views) THEN ds.views ELSE EMPTY>> }
         ELSE { <<"topic", ds.topic>>, <<"type", <<"explain">> >>,
                <<"big_bet", IF Present(ds.bigbet) THEN ds.bigbet
                             ELSE <<"__BIGBET__">> >>,
                <<"label", IF Present(ds.label) THEN ds.label ELSE EMPTY>> }

\* C10, amended: as stated, but big_bet is the element's value only if it is
\* present and not empty, and BIGBET otherwise.
C10_BigBetIfNonEmpty ==
  Invoked =>
    LET ds == dataset[Btn]
        kind == step.req.kind
    IN step.req.body =
         IF kind \in {"write", "start"}
         THEN { <<"topic", ds.topic>>, <<"type", <<kind>> >>,
                <<"card_type", ds.type>>,
                <<"views", IF Present(ds.views) THEN ds.views ELSE EMPTY>> }
         ELSE { <<"topic", ds.topic>>, <<"type", <<"explain">> >>,
                <<"big_bet", IF Present(ds.bigbet) /\ ds.bigbet # EMPTY
                             THEN ds.bigbet ELSE <<"__BIGBET__">> >>,
                <<"label", IF Present(ds.label) THEN ds.label ELSE EMPTY>> }

C10_Witness ==
  /\ Invoked /\ step.req.kind = "explain"
  /\ dataset[Btn].bigbet = UNDEFINED /\ dataset[Btn].label = UNDEFINED
  /\ <<"big_bet", <<"__BIGBET__">> >> \in step.req.body
  /\ <<"label", EMPTY>> \in step.req.body

\* the text a successful response yields
TextOf(out) ==
  IF Truthy(out.content) THEN out.content ELSE <<"No content generated.">>

\* the modal body B shows the result, content or error, of the outcome out
Shows(B, out) ==
  IF Succeeded(out)
  THEN B.cls = "wm-content" /\ LineBroken(TextOf(out), B.html)
  ELSE B.cls = "error" /\ B.html = <<"Error: ">> \o FailureText(out)

\* C11: there is no ordering guard between overlapping requests: every
\* settlement overwrites the modal body with its own result, whenever its
\* request was started, and only an invocation or a settlement changes the
\* body; so once all have settled the body shows the result of the request
\* that settled last.
C11_LastSettledWins ==
  /\ [](Settled => Shows(wmContent, step.out))
  /\ [][step'.op \notin {"invoke", "settle"} => wmContent' = wmContent]_vars

C11_Witness ==
  /\ Settled /\ step.req.id = 1 /\ calls = 2 /\ pending = {}
  /\ step.out.how = "parsed" /\ step.out.content = <<NL, "a", NL>>
  /\ wmContent.html = <<BR, "a", BR>>

\* C12: lastContent is the text of the most recently settled successful
\* request, or the initial empty string: it starts empty, a successful
\* settlement sets it to that request's text, and no other step (failed
\* settlement, invocation, closeWriter, copyContent and its callbacks)
\* changes it.
C12_LastContentIsLatestSuccess ==
  /\ (step.op = "init" => lastContent = EMPTY)
  /\ [][lastContent' =
          (IF step'.op = "settle" /\ Succeeded(step'.out)
           THEN TextOf(step'.out) ELSE lastContent)]_vars

C12_Witness ==
  /\ Settled /\ ~Succeeded(step.out) /\ calls = 2 /\ copies = 1
  /\ ~overlayActive /\ lastContent = <<"a">>

\* the title and the loading message of the action of the request req
TitleOf(req) ==
  LET ds == dataset[req.btn]
  IN CASE req.kind = "write" -> <<"(pen) ">> \o ds.topic
       [] req.kind = "start" -> <<"(rocket) Getting You Started: ">> \o ds.topic
       [] req.kind = "explain" ->
            <<"(lens) Deep Dive: ">>
              \o (IF ds.label \in {UNDEFINED, EMPTY} THEN EMPTY ELSE ds.label)

LoadingOf(req) ==
  CASE req.kind = "write" -> <<"Writing in ">> \o CH \o <<"'s voice...">>
    [] req.kind = "start" -> <<"Building your starting framework...">>
    [] req.kind = "explain" -> <<"Building deep explanation...">>

\* C13: immediately after any invocation, whatever the modal showed before and
\* however many requests are outstanding, the modal is visible, its title is
\* the title of the invoked action and its body is the loading state with
\* that action's loading message.
C13_InvocationResetsModal ==
  Invoked =>
    /\ overlayActive
    /\ wmTitle = TitleOf(step.req)
    /\ wmContent.cls = "wm-loading"
    /\ wmContent.html = LoadingOf(step.req)

C13_Witness ==
  /\ Invoked /\ step.req.kind = "start" /\ Cardinality(pending) = 2
  /\ lastContent = <<"a">>
  /\ wmTitle = <<"(rocket) Getting You Started: ", "Launch Plan">>
  /\ wmContent.cls = "wm-loading"

\* C14: the invocation and the settlement of a request triggered by an
\* element leave the disabled flag and the label of every other element
\* unchanged, in every interleaving.
C14_OtherElementsUntouched ==
  [][step'.op \in {"invoke", "settle"} =>
       \A b \in Elements \ {step'.req.btn} :
          /\ disabled'[b] = disabled[b]
          /\ textContent'[b] = textContent[b]]_vars

C14_Witness ==
  /\ Settled /\ ~disabled[Btn] /\ Btn = "btnStart"
  /\ disabled["btnWrite"] /\ textContent["btnWrite"] = BUSY_WRITE
  /\ ~disabled["btnExplain"]
  /\ \E req \in pending : req.btn = "btnWrite"

\* the operations a page takes whose disabled elements receive no click
StepEnabled(n) ==
  /\ Step(n)
  /\ step'.op = "invoke" => ~disabled[step'.req.btn]

SpecEnabled == Init /\ [][StepEnabled(MaxOps)]_vars

\* the requests triggered by the element e that are outstanding
Outstanding(e) == {req \in pending : req.btn = e}

\* C15: when an action is only invoked on an element that is enabled, every
\* element has at most one outstanding request at any time, and an element
\* is disabled exactly when a request it triggered is outstanding.
C15_DisabledIffOutstanding ==
  \A e \in Elements :
     /\ Cardinality(Outstanding(e)) <= 1
     /\ disabled[e] <=> Outstanding(e) # {}

C15_Witness ==
  /\ Settled /\ Btn = "btnWrite" /\ calls = 3
  /\ ~disabled["btnWrite"] /\ Outstanding("btnWrite") = {}
  /\ disabled["btnStart"] /\ Cardinality(Outstanding("btnStart")) = 1

\* C16: whenever the modal body shows generated content (neither the loading
\* state nor an error message), that body is the line-break rendering of the
\* current lastContent, in every interleaving of overlapping requests.
C16_ContentBodyRendersLastContent ==
  wmContent.cls = "wm-content" => LineBroken(lastContent, wmContent.html)

C16_Witness ==
  /\ step.op = "written" /\ pending # {} /\ calls = 2
  /\ wmContent.cls = "wm-content" /\ wmContent.html = <<BR, "a", BR>>
  /\ lastContent = <<NL, "a", NL>>

\* C17: a settlement never changes the modal's title or its visibility; the
\* title is always that of the most recently invoked action (only an
\* invocation sets it); and a hidden modal stays hidden until the next
\* invocation, also when an outstanding request settles in between.
C17_SettlementKeepsTitleAndVisibility ==
  /\ [](Invoked => wmTitle = TitleOf(step.req))
  /\ [][/\ step'.op = "settle" =>
             wmTitle' = wmTitle /\ overlayActive' = overlayActive
        /\ step'.op # "invoke" =>
             /\ wmTitle' = wmTitle
             /\ ~overlayActive => ~overlayActive']_vars

C17_Witness ==
  /\ Settled /\ step.req.id = 1 /\ step.req.kind = "write" /\ calls = 2
  /\ ~overlayActive /\ wmContent.cls = "wm-content"
  /\ wmTitle = <<"(rocket) Getting You Started: ", "Launch Plan">>

\* the modal body is the loading state
Loading == wmContent.cls = "wm-loading"

\* C18: whenever the modal body is in the loading state at least one request
\* is outstanding; hence, every outstanding request settling eventually, the
\* body never stays in the loading state forever.
C18_LoadingHasOutstanding ==
  /\ [](Loading => pending # {})
  /\ Loading ~> ~Loading

C18_Witness ==
  /\ Loading /\ ~overlayActive /\ calls = 2 /\ Cardinality(pending) = 1
  /\ lastContent = <<"a">>

====
